---- MODULE Spec2Model ----
\* Model of the Todo HTTP service (backend/routes/todo.py, backend/schemas/todomodel.py,
\* backend/main.py).  Request handlers run concurrently (FastAPI dispatches plain `def`
\* handlers on a thread pool); every call on the shared MongoDB collection is one atomic
\* step, so the two-call handlers create_todo and update_todo take two steps each.
\* The worker threads are interchangeable, so the requests that are between their two
\* storage calls are kept as a bag.
EXTENDS Integers, Sequences, FiniteSets, Bags, TLC

\* ---------------------------------------------------------------- bounds
\* number of worker threads: the requests that can be in flight at once
MaxThreads == 2
\* number of ObjectIds the driver hands out in a run
MaxOid == 2

Oids == 1..MaxOid

\* ---------------------------------------------------------------- python dict helpers
\* del d[k]
DelKey(d, k) == [f \in (DOMAIN d) \ {k} |-> d[f]]

\* d[k] = v
SetKey(d, k, v) == [f \in (DOMAIN d) \cup {k} |-> IF f = k THEN v ELSE d[f]]

\* ---------------------------------------------------------------- ObjectId <-> str
\* An ObjectId is modelled by a natural number and its string form by the
\* fixed-width sequence of its hexadecimal digits (two digits here, 24 in bson).
HexDigits == 0..15

\* str(oid)
StrOf(oid) == << oid \div 16, oid % 16 >>

\* bson.ObjectId.is_valid(s): right length, hexadecimal digits only
IsValidOid(s) == Len(s) = Len(StrOf(0)) /\ \A i \in DOMAIN s : s[i] \in HexDigits

\* ObjectId(s) for a valid s
ParseOid(s) == s[1] * 16 + s[2]

\* a path segment that is not an ObjectId (ObjectId(id) raises InvalidId)
Malformed == << 0 >>

\* the path identifiers clients send
PathIds == { StrOf(n) : n \in Oids } \cup { Malformed }

\* ---------------------------------------------------------------- schemas
ContentFields == {"title", "description", "deadline"}

\* class Todo: id is Optional with default None, the other three are required
Todo_required == ContentFields
Todo_optional == {"id"}

\* variant: TodoUpdate with Optional description and deadline (PATCH-style)
TodoUpdate_title_only == {"title"}

\* class TodoUpdate: the three content fields, all required
TodoUpdate_required == ContentFields
TodoUpdate_optional == {}

\* Python None (default of Todo.id)
None == "<None>"

\* pydantic validation of a decoded JSON object against a model
IsValidBody(required, body) == required \subseteq DOMAIN body

\* dict(model): the declared fields, optional ones defaulting to None, extras dropped
ModelDict(required, optional, body) ==
    [f \in required \cup optional |-> IF f \in DOMAIN body THEN body[f] ELSE None]

\* the request bodies clients send
Milk    == [title |-> "Buy milk", description |-> "2%", deadline |-> "2024-01-01"]
OatMilk == [title |-> "Buy oat milk", description |-> "1%", deadline |-> "2024-01-02"]

ValidBodies == { Milk, SetKey(OatMilk, "id", "client-id") }

InvalidBodies == { DelKey(SetKey(OatMilk, "id", "client-id"), f) : f \in ContentFields }

Bodies == ValidBodies \cup InvalidBodies

\* ---------------------------------------------------------------- the collection
\* The collection is the sequence of its documents in insertion order (the
\* natural order of find()); a document is a function from field names to values.

\* the positions of the documents matching {"_id": oid}
Matches(c, oid) == { i \in DOMAIN c : c[i]["_id"] = oid }

FirstMatch(c, oid) == CHOOSE i \in Matches(c, oid) : \A j \in Matches(c, oid) : i <= j

\* collection.find_one({"_id": oid}): the document, or None (the empty sequence)
find_one(c, oid) ==
    IF Matches(c, oid) = {} THEN << >> ELSE << c[FirstMatch(c, oid)] >>

\* collection.insert_one(doc) with the ObjectId the driver generated
insert_one(c, doc, oid) == Append(c, SetKey(doc, "_id", oid))

\* collection.update_one({"_id": oid}, {"$set": fields}): no upsert
update_one(c, oid, fields) ==
    IF Matches(c, oid) = {} THEN c
    ELSE [i \in DOMAIN c |->
            IF i = FirstMatch(c, oid)
            THEN [f \in (DOMAIN c[i]) \cup (DOMAIN fields) |->
                    IF f \in DOMAIN fields THEN fields[f] ELSE c[i][f]]
            ELSE c[i]]

\* collection.delete_one({"_id": oid})
delete_one(c, oid) ==
    IF Matches(c, oid) = {} THEN c
    ELSE LET k == FirstMatch(c, oid)
         IN  [i \in 1..(Len(c) - 1) |-> IF i < k THEN c[i] ELSE c[i + 1]]

\* result.deleted_count
deleted_count(c, oid) == IF Matches(c, oid) = {} THEN 0 ELSE 1

\* ---------------------------------------------------------------- handler bodies
NotFound == [status |-> 404, out |-> [detail |-> "Todo not found"]]

\* FastAPI's answer to a body that fails validation
Unprocessable == [status |-> 422, out |-> [detail |-> "validation error"]]

\* an exception no handler catches (InvalidId, TypeError)
ServerError == [status |-> 500, out |-> [detail |-> "Internal Server Error"]]

Ok(out) == [status |-> 200, out |-> out]

\* variant: get_todos without `del todo["_id"]`
get_todos_keeps_oid(c) ==
    [i \in DOMAIN c |-> SetKey(c[i], "id", StrOf(c[i]["_id"]))]

\* variant: get_todos that loses the first document of the cursor
get_todos_skips_first(c) ==
    [i \in 1..(Len(c) - 1) |->
        DelKey(SetKey(c[i + 1], "id", StrOf(c[i + 1]["_id"])), "_id")]

\* get_todos, lines 11-16: rewrite every document and return the list
get_todos_result(c) ==
    [i \in DOMAIN c |-> DelKey(SetKey(c[i], "id", StrOf(c[i]["_id"])), "_id")]

\* variant: get_todo without `del todo["_id"]`
get_todo_keeps_oid(c, id) ==
    IF ~IsValidOid(id) THEN ServerError
    ELSE LET todo == find_one(c, ParseOid(id))
         IN  IF todo # << >>
             THEN Ok(SetKey(todo[1], "id", StrOf(todo[1]["_id"])))
             ELSE NotFound

\* get_todo, lines 21-26, given the path id
get_todo_result(c, id) ==
    IF ~IsValidOid(id) THEN ServerError
    ELSE LET todo == find_one(c, ParseOid(id))
         IN  IF todo # << >>
             THEN Ok(DelKey(SetKey(todo[1], "id", StrOf(todo[1]["_id"])), "_id"))
             ELSE NotFound

\* variant: create_todo that inserts dict(todo) as it is, "id" included
create_todo_keeps_id(body) == ModelDict(Todo_required, Todo_optional, body)

\* create_todo, lines 31-33: dict(todo) without its "id" key
create_todo_dict(body) ==
    LET todo_dict == ModelDict(Todo_required, Todo_optional, body)
    IN  IF "id" \in DOMAIN todo_dict THEN DelKey(todo_dict, "id") ELSE todo_dict

\* create_todo, lines 35-38: indexing None raises TypeError
create_todo_result(c, inserted_id) ==
    LET new_todo == find_one(c, inserted_id)
    IN  IF new_todo = << >> THEN ServerError
        ELSE Ok(DelKey(SetKey(new_todo[1], "id", StrOf(new_todo[1]["_id"])), "_id"))

\* variant: update_todo that sets the title only
update_todo_title_only(body) == ModelDict({"title"}, {}, body)

\* update_todo, line 43
update_todo_dict(body) == ModelDict(TodoUpdate_required, TodoUpdate_optional, body)

\* variant: update_one(..., upsert=True)
update_todo_upsert(c, oid, todo_dict) ==
    IF Matches(c, oid) = {}
    THEN Append(c, SetKey(todo_dict, "_id", oid))
    ELSE update_one(c, oid, todo_dict)

\* update_todo, line 44: the collection after the unconditional $set
update_todo_set_coll(c, oid, todo_dict) == update_one(c, oid, todo_dict)

\* update_todo, lines 45-50
update_todo_result(c, id) ==
    LET updated_todo == find_one(c, ParseOid(id))
    IN  IF updated_todo # << >>
        THEN Ok(DelKey(SetKey(updated_todo[1], "id", StrOf(updated_todo[1]["_id"])), "_id"))
        ELSE NotFound

\* variant: delete_todo testing `deleted_count >= 0`
delete_todo_always_ok(count) ==
    IF count >= 0 THEN Ok([message |-> "Todo deleted successfully"]) ELSE NotFound

\* delete_todo, lines 56-58
delete_todo_result(count) ==
    IF count > 0 THEN Ok([message |-> "Todo deleted successfully"]) ELSE NotFound

\* ---------------------------------------------------------------- state
VARIABLES
    coll,      \* the documents of the collection, in insertion order
    nextOid,   \* the ObjectId the driver generates next
    inflight,  \* bag of the requests between their two storage calls, each with
               \* its local variables
    last,      \* the last step: the request that took it and the response it
               \* sent, if it sent one, until the response has left the server
    removed,   \* history: the ObjectIds delete_one has removed
    settled    \* history: per ObjectId, the answer of the last create/update that
               \* ran undisturbed, kept while nothing else writes that document

vars == << coll, nextOid, inflight, last, removed, settled >>

NoStep == [op |-> "none", sent |-> FALSE]

\* the step of request req of handler op that sent response r
Sent(op, req, r) == [op |-> op, req |-> req, sent |-> TRUE] @@ r

\* the storage call of request req of handler op that sent nothing yet
Pending(op, req) == [op |-> op, req |-> req, sent |-> FALSE]

\* a worker thread is free to take a request (and the previous response has left)
ThreadFree == ~last.sent /\ BagCardinality(inflight) < MaxThreads

\* history: a write to document oid disturbs every request that is between its
\* two storage calls on the same document
Touch(b, oid) ==
    LET Dirty(r) == IF r.oid = oid THEN [r EXCEPT !.clean = FALSE] ELSE r
        Of(s, r) == IF r \in DOMAIN b /\ Dirty(r) = s THEN b[r] ELSE 0
    IN  [s \in { Dirty(r) : r \in DOMAIN b } |->
            IF s.oid = oid THEN Of(s, s) + Of(s, [s EXCEPT !.clean = TRUE]) ELSE b[s]]

\* history: forget what was last answered about document oid
Forget(s, oid) == [k \in (DOMAIN s) \ {oid} |-> s[k]]

\* history: remember what was last answered about document oid
Remember(s, oid, entry) == [k \in (DOMAIN s) \cup {oid} |-> IF k = oid THEN entry ELSE s[k]]

Init ==
    /\ coll = << >>
    /\ nextOid = 1
    /\ inflight = EmptyBag
    /\ last = NoStep
    /\ removed = {}
    /\ settled = << >>

\* ---------------------------------------------------------------- actions
\* GET /todos/
get_todos ==
    /\ ThreadFree
    /\ last' = Sent("get_todos", << >>, Ok(get_todos_result(coll)))
    /\ UNCHANGED << coll, nextOid, inflight, removed, settled >>

\* GET /todos/{id}
get_todo(id) ==
    /\ ThreadFree
    /\ last' = Sent("get_todo", [id |-> id], get_todo_result(coll, id))
    /\ UNCHANGED << coll, nextOid, inflight, removed, settled >>

\* POST /todos/ with a body the Todo schema rejects: the handler is not entered
create_todo_invalid(body) ==
    /\ ThreadFree
    /\ ~IsValidBody(Todo_required, body)
    /\ last' = Sent("create_todo", [body |-> body], Unprocessable)
    /\ UNCHANGED << coll, nextOid, inflight, removed, settled >>

\* POST /todos/, lines 31-34: up to and including insert_one
create_todo_insert(body) ==
    /\ ThreadFree
    /\ IsValidBody(Todo_required, body)
    /\ nextOid <= MaxOid
    /\ LET todo_dict == create_todo_dict(body)
           req == [body |-> body, todo_dict |-> todo_dict, oid |-> nextOid, clean |-> TRUE]
       IN  /\ coll' = insert_one(coll, todo_dict, nextOid)
           /\ inflight' = Touch(inflight, nextOid) (+) SetToBag({req})
           /\ last' = Pending("create_todo", req)
    /\ nextOid' = nextOid + 1
    /\ settled' = Forget(settled, nextOid)
    /\ UNCHANGED removed

\* POST /todos/, lines 35-38: re-fetch by result.inserted_id and answer
create_todo_find ==
  \E req \in DOMAIN inflight :
    /\ ~last.sent
    /\ BagIn(req, inflight)
    /\ "id" \notin DOMAIN req
    /\ LET r == create_todo_result(coll, req.oid)
       IN  /\ last' = Sent("create_todo", req, r)
           /\ settled' = IF req.clean /\ r.status = 200
                         THEN Remember(settled, req.oid,
                                       [op |-> "create_todo", body |-> req.body, out |-> r.out])
                         ELSE settled
    /\ inflight' = inflight (-) SetToBag({req})
    /\ UNCHANGED << coll, nextOid, removed >>

\* PUT /todos/{id} with a body the TodoUpdate schema rejects
update_todo_invalid(id, body) ==
    /\ ThreadFree
    /\ ~IsValidBody(TodoUpdate_required, body)
    /\ last' = Sent("update_todo", [id |-> id, body |-> body], Unprocessable)
    /\ UNCHANGED << coll, nextOid, inflight, removed, settled >>

\* PUT /todos/{id}, line 44 with an id ObjectId() rejects: InvalidId propagates
update_todo_badid(id, body) ==
    /\ ThreadFree
    /\ IsValidBody(TodoUpdate_required, body)
    /\ ~IsValidOid(id)
    /\ last' = Sent("update_todo", [id |-> id, body |-> body], ServerError)
    /\ UNCHANGED << coll, nextOid, inflight, removed, settled >>

\* PUT /todos/{id}, lines 43-44: up to and including update_one
update_todo_set(id, body) ==
    /\ ThreadFree
    /\ IsValidBody(TodoUpdate_required, body)
    /\ IsValidOid(id)
    /\ LET todo_dict == update_todo_dict(body)
           oid == ParseOid(id)
           matched == Matches(coll, oid) # {}
           req == [id |-> id, body |-> body, todo_dict |-> todo_dict, oid |-> oid,
                   matched |-> matched, clean |-> TRUE]
       IN  /\ coll' = update_todo_set_coll(coll, oid, todo_dict)
           /\ inflight' = (IF coll' # coll \/ matched THEN Touch(inflight, oid) ELSE inflight)
                            (+) SetToBag({req})
           /\ settled' = IF coll' # coll \/ matched THEN Forget(settled, oid) ELSE settled
           /\ last' = Pending("update_todo", req)
    /\ UNCHANGED << nextOid, removed >>

\* PUT /todos/{id}, lines 45-50: re-fetch and answer
update_todo_find ==
  \E req \in DOMAIN inflight :
    /\ ~last.sent
    /\ BagIn(req, inflight)
    /\ "id" \in DOMAIN req
    /\ LET r == update_todo_result(coll, req.id)
       IN  /\ last' = Sent("update_todo", req, r)
           /\ settled' = IF req.clean /\ req.matched /\ r.status = 200
                         THEN Remember(settled, req.oid,
                                       [op |-> "update_todo", body |-> req.body, out |-> r.out])
                         ELSE settled
    /\ inflight' = inflight (-) SetToBag({req})
    /\ UNCHANGED << coll, nextOid, removed >>

\* DELETE /todos/{id}
delete_todo(id) ==
    /\ ThreadFree
    /\ IF ~IsValidOid(id)
       THEN /\ last' = Sent("delete_todo", [id |-> id], ServerError)
            /\ UNCHANGED << coll, inflight, removed, settled >>
       ELSE LET oid == ParseOid(id)
                count == deleted_count(coll, oid)
            IN  /\ coll' = delete_one(coll, oid)
                /\ last' = Sent("delete_todo", [id |-> id], delete_todo_result(count))
                /\ removed' = IF count > 0 THEN removed \cup {oid} ELSE removed
                /\ inflight' = IF count > 0 THEN Touch(inflight, oid) ELSE inflight
                /\ settled' = IF count > 0 THEN Forget(settled, oid) ELSE settled
    /\ UNCHANGED nextOid

\* GET /
root ==
    /\ ThreadFree
    /\ last' = Sent("root", << >>, Ok([message |-> "Welcome to the Todo API"]))
    /\ UNCHANGED << coll, nextOid, inflight, removed, settled >>

\* the response leaves the server
Deliver ==
    /\ last.sent
    /\ last' = NoStep
    /\ UNCHANGED << coll, nextOid, inflight, removed, settled >>

Next ==
    \/ get_todos
    \/ \E id \in PathIds : get_todo(id)
    \/ \E body \in Bodies : create_todo_invalid(body)
    \/ \E body \in Bodies : create_todo_insert(body)
    \/ create_todo_find
    \/ \E id \in PathIds, body \in Bodies : update_todo_invalid(id, body)
    \/ \E id \in PathIds, body \in Bodies : update_todo_badid(id, body)
    \/ \E id \in PathIds, body \in Bodies : update_todo_set(id, body)
    \/ update_todo_find
    \/ \E id \in PathIds : delete_todo(id)
    \/ root
    \/ Deliver

Spec == Init /\ [][Next]_vars

TypeOK ==
    /\ nextOid \in 1..(MaxOid + 1)
    /\ Len(coll) <= MaxOid
    /\ removed \subseteq Oids
    /\ BagCardinality(inflight) <= MaxThreads
    /\ \A r \in DOMAIN inflight : inflight[r] > 0

\* ---------------------------------------------------------------- properties
\* a and b carry the same title, description and deadline
SameContent(a, b) ==
    \A f \in ContentFields : f \in DOMAIN a /\ f \in DOMAIN b /\ a[f] = b[f]

\* r has an `id` that is the string form of ObjectId oid, and no `_id`
IsPublicRecordOf(r, oid) ==
    /\ "id" \in DOMAIN r
    /\ "_id" \notin DOMAIN r
    /\ r["id"] = StrOf(oid)
    /\ IsValidOid(r["id"]) /\ ParseOid(r["id"]) = oid

\* step l answered a request on a well-formed path id (and, for update_todo, a
\* body with the three content fields)
HasPathOid(l) ==
    /\ l.op \in {"get_todo", "update_todo", "delete_todo"}
    /\ l.sent
    /\ IsValidOid(l.req.id)
    /\ l.op = "update_todo" => ContentFields \subseteq DOMAIN l.req.body

\* the ObjectId such a step is about
RespOid(l) == ParseOid(l.req.id)

\* step l is create_todo's insert_one / update_todo's update_one
IsInsert(l) == l.op = "create_todo" /\ ~l.sent
IsSet(l)    == l.op = "update_todo" /\ ~l.sent

\* step l is the re-fetch and answer of create_todo / update_todo
IsCreateAnswer(l) == l.op = "create_todo" /\ l.sent /\ "oid" \in DOMAIN l.req
IsUpdateAnswer(l) == l.op = "update_todo" /\ l.sent /\ "oid" \in DOMAIN l.req

\* the last step was GET /todos/{id} with the id that answer `entry` carried
GetOfSettled(entry) ==
    /\ last.op = "get_todo" /\ last.sent
    /\ "id" \in DOMAIN entry.out
    /\ last.req.id = entry.out["id"]

\* C1: a create answered with a record that has a non-empty id and the content of
\* the payload, and a get_todo on that id, with no other write to the document since
\* it was inserted, answers 200 with a body identical to the create's.
C1_CreateThenGet ==
    \A k \in DOMAIN settled :
        settled[k].op = "create_todo" =>
            /\ "id" \in DOMAIN settled[k].out
            /\ Len(settled[k].out["id"]) > 0
            /\ SameContent(settled[k].out, settled[k].body)
            /\ GetOfSettled(settled[k]) =>
                    /\ last.status = 200
                    /\ last.out = settled[k].out
                    /\ SameContent(last.out, settled[k].body)

C1_Witness ==
    \E k \in DOMAIN settled :
        /\ settled[k].op = "create_todo"
        /\ GetOfSettled(settled[k])
        /\ last.status = 200
        /\ Len(coll) > 1

\* C2: get_todo, delete_todo and update_todo on a well-formed id that matches no
\* document answer 404 "Todo not found" and leave the collection as it was; the
\* update's $set inserts nothing.
C2_UnknownId ==
    [][ /\ (HasPathOid(last') /\ last'.op \in {"get_todo", "delete_todo"}
              /\ Matches(coll, RespOid(last')) = {})
                => (last'.status = 404 /\ last'.out = NotFound.out /\ coll' = coll)
        /\ (IsSet(last') /\ Matches(coll, last'.req.oid) = {}) => coll' = coll
        /\ (IsUpdateAnswer(last') /\ ~last'.req.matched /\ last'.req.clean)
                => (last'.status = 404 /\ last'.out = NotFound.out /\ coll' = coll)
      ]_vars

C2_Witness ==
    /\ IsUpdateAnswer(last) /\ last.status = 404
    /\ ~last.req.matched /\ last.req.oid \notin removed
    /\ coll # << >>

\* C3: update_todo on an existing document replaces its three content fields by the
\* payload's and touches no other document; undisturbed, it answers 200 with the
\* payload's content under the same id, and a following get_todo returns the same.
C3_UpdateReplaces ==
    /\ [][ /\ (IsSet(last') /\ Matches(coll, last'.req.oid) # {}) =>
                    /\ Len(coll') = Len(coll)
                    /\ \A i \in DOMAIN coll :
                          IF coll[i]["_id"] = last'.req.oid
                          THEN /\ DOMAIN coll'[i] = DOMAIN coll[i]
                               /\ coll'[i]["_id"] = coll[i]["_id"]
                               /\ SameContent(coll'[i], last'.req.body)
                          ELSE coll'[i] = coll[i]
           /\ (IsUpdateAnswer(last') /\ last'.req.matched /\ last'.req.clean) =>
                    /\ last'.status = 200
                    /\ SameContent(last'.out, last'.req.body)
                    /\ "id" \in DOMAIN last'.out /\ last'.out["id"] = last'.req.id
                    /\ coll' = coll
         ]_vars
    /\ [](\A k \in DOMAIN settled :
            (settled[k].op = "update_todo" /\ GetOfSettled(settled[k])) =>
                /\ last.status = 200
                /\ last.out = settled[k].out
                /\ SameContent(last.out, settled[k].body))

C3_Witness ==
    \E k \in DOMAIN settled :
        /\ settled[k].op = "update_todo"
        /\ GetOfSettled(settled[k])
        /\ last.status = 200
        /\ Len(coll) > 1

\* C4: delete_todo on an existing document answers 200 with the confirmation
\* message and removes that document only; from then on the id matches nothing and
\* every get_todo, update_todo and delete_todo on it answers 404.
C4_DeleteIsFinal ==
    /\ [][ /\ (HasPathOid(last') /\ last'.op = "delete_todo"
                 /\ Matches(coll, RespOid(last')) # {}) =>
                    /\ last'.status = 200
                    /\ last'.out = [message |-> "Todo deleted successfully"]
                    /\ coll' = SelectSeq(coll, LAMBDA d : d["_id"] # RespOid(last'))
                    /\ Len(coll') = Len(coll) - 1
           /\ (HasPathOid(last') /\ RespOid(last') \in removed) => last'.status = 404
         ]_vars
    /\ [](\A o \in removed : Matches(coll, o) = {})

C4_Witness ==
    /\ IsUpdateAnswer(last) /\ HasPathOid(last)
    /\ RespOid(last) \in removed
    /\ coll # << >>
    /\ nextOid > MaxOid

\* C5: every record sent by get_todos, get_todo, create_todo or update_todo has an
\* `id` that is the string form of the _id of the document it was made from, and
\* has no `_id`.
C5_PublicId ==
    /\ (last.op \in {"get_todo", "create_todo", "update_todo"} /\ last.sent
          /\ last.status = 200) =>
            \E i \in DOMAIN coll :
                IsPublicRecordOf(last.out, coll[i]["_id"]) /\ SameContent(last.out, coll[i])
    /\ (last.op = "get_todos" /\ last.sent) =>
            \A i \in DOMAIN last.out :
                i \in DOMAIN coll /\ IsPublicRecordOf(last.out[i], coll[i]["_id"])

C5_Witness ==
    /\ last.op = "get_todos" /\ last.sent
    /\ Len(last.out) > 1

\* C6: get_todos answers with one record per document of the collection, in order,
\* each with exactly id, title, description and deadline, and changes nothing; with
\* no delete so far the list is at least as long as the number of inserts.
C6_ListAll ==
    /\ []((last.op = "get_todos" /\ last.sent) =>
            /\ last.status = 200
            /\ Len(last.out) = Len(coll)
            /\ \A i \in DOMAIN coll :
                  /\ DOMAIN last.out[i] = ContentFields \cup {"id"}
                  /\ last.out[i]["id"] = StrOf(coll[i]["_id"])
                  /\ SameContent(last.out[i], coll[i])
            /\ (removed = {} => Len(last.out) >= nextOid - 1))
    /\ [][last'.op = "get_todos" => UNCHANGED << coll, nextOid, inflight >>]_vars

C6_Witness ==
    /\ last.op = "get_todos" /\ last.sent
    /\ Len(last.out) = MaxOid
    /\ removed = {}

\* C7: a create_todo or update_todo whose body lacks title, description or deadline
\* is answered 422 without any storage call: the collection and the requests in
\* flight are left as they were, and no insert or $set is ever issued for such a body.
C7_Validation ==
    [][ /\ (last'.op \in {"create_todo", "update_todo"}
              /\ ~(ContentFields \subseteq DOMAIN last'.req.body))
                => (last'.sent /\ last'.status = 422 /\ UNCHANGED << coll, nextOid, inflight >>)
        /\ coll' # coll => \A i \in DOMAIN coll' : ContentFields \subseteq DOMAIN coll'[i]
      ]_vars

C7_Witness ==
    /\ last.op = "update_todo" /\ last.sent /\ last.status = 422
    /\ IsValidOid(last.req.id) /\ Matches(coll, RespOid(last)) # {}
    /\ "title" \in DOMAIN last.req.body
    /\ \E i \in DOMAIN coll : coll[i]["title"] # last.req.body["title"]

\* C8: in every interleaving update_todo answers 404 only if no document had the
\* id when its $set ran, and when it answers 200 the record carries its own payload.
C8_UpdateAtomic ==
    IsUpdateAnswer(last) =>
        /\ last.status = 404 => ~last.req.matched
        /\ last.status = 200 => SameContent(last.out, last.req.todo_dict)

\* C9: in every interleaving create_todo answers 200 with the assigned id and the
\* content it inserted; the re-fetch always finds the document.
C9_CreateCompletes ==
    IsCreateAnswer(last) =>
        /\ last.status = 200
        /\ SameContent(last.out, last.req.todo_dict)
        /\ IsPublicRecordOf(last.out, last.req.oid)

\* C10: every document is an _id unique in the collection plus exactly title,
\* description and deadline; create_todo's insert appends one document under an
\* _id no document has, with the payload's content whatever id the client sent,
\* and leaves the others as they were.
C10_Documents ==
    /\ [](/\ \A i \in DOMAIN coll : DOMAIN coll[i] = ContentFields \cup {"_id"}
          /\ \A i, j \in DOMAIN coll : coll[i]["_id"] = coll[j]["_id"] => i = j)
    /\ [][ IsInsert(last') =>
                /\ Len(coll') = Len(coll) + 1
                /\ \A i \in DOMAIN coll : coll'[i] = coll[i]
                /\ Matches(coll, coll'[Len(coll')]["_id"]) = {}
                /\ coll'[Len(coll')]["_id"] = last'.req.oid
                /\ SameContent(coll'[Len(coll')], last'.req.body)
         ]_vars

C10_Witness ==
    /\ IsInsert(last) /\ "id" \in DOMAIN last.req.body
    /\ Len(coll) > 1

====
